---- MODULE Spec2Model ----
(***************************************************************************)
(* The battle contract (battle-contract/src/lib.rs) as a state machine     *)
(* over its instance storage.  Every entry point of BattleContract is an   *)
(* operator from the store before the call to the outcome of the call      *)
(* ([ok, s]); a panic (a failed assert!) aborts the invocation and the     *)
(* host rolls the storage back, so a failed call returns the store it      *)
(* was given.  The actions apply the entry points to the current store.    *)
(***************************************************************************)
EXTENDS Integers, Sequences, FiniteSets, TLC

(***************************************************************************)
(* Addresses are totally ordered (a soroban Map iterates its keys in       *)
(* ascending order); they are modelled by integers.  The contract's own    *)
(* address sits between the users' addresses so that both relative orders  *)
(* of a user and the contract occur.                                       *)
(***************************************************************************)
ContractId == 2

Users == {1, 3}

Address == Users \cup {ContractId}

Names == {"X", "Y"}

\* Bounds of the model: the lengths of the two append-only index vectors.
MaxPlayers == 2

MaxBattles == 2

\* Bound of the model: the number of resolution steps explored.
MaxRounds == 1

\* Bound of the model: the number of health updates explored in the earlier
\* draft of the contract.
MaxDraftCalls == 3

\* Rounds resolved in one battle played to its end (baseline players need
\* nine rounds of Attack against Attack before one more is lethal).
MaxBout == 10

\* BattleStatus (lib.rs 78-82)
Pending == 0

Started == 1

Ended == 2

VARIABLES
    player,    \* DataKey::Player(addr)  -> PlayerStat   (present keys only)
    battle,    \* DataKey::Battle(name)  -> Battle       (present keys only)
    players,   \* DataKey::Players : Vec<Address>
    battles,   \* DataKey::Battles : Vec<Symbol>
    balance,   \* NFTDataKey::Balance(addr) -> Map<u32, i128> (present keys only)
    rounds     \* number of resolutions (in the draft: health updates) run so far

vars == <<player, battle, players, battles, balance, rounds>>

\* The instance storage as one value, the argument of every entry point.
Store ==
    [player |-> player, battle |-> battle, players |-> players, battles |-> battles,
     balance |-> balance]

(***************************************************************************)
(* soroban_sdk::Map                                                        *)
(***************************************************************************)
\* Map::set: insert or overwrite one key.
MapSet(m, k, v) == [x \in (DOMAIN m) \cup {k} |-> IF x = k THEN v ELSE m[x]]

\* map![&env, (k1, v1), (k2, v2)]: entries inserted in order, a repeated key
\* keeps the later value.
Map2(k1, v1, k2, v2) == MapSet(MapSet(<<>>, k1, v1), k2, v2)

\* m.get(k).unwrap_or(d)
MapGetOr(m, k, d) == IF k \in DOMAIN m THEN m[k] ELSE d

\* m.keys().get(i).unwrap_or(d), i counted from 0: keys() is ascending.
KeyAt(m, i, d) ==
    LET ks == DOMAIN m
        at == {k \in ks : Cardinality({j \in ks : j < k}) = i}
    IN  IF at = {} THEN d ELSE CHOOSE k \in at : TRUE

(***************************************************************************)
(* u32 arithmetic.  Whether `+=` / `-=` panic on overflow or wrap depends   *)
(* on the build profile (overflow-checks); every operation that computes   *)
(* takes the profile as its last argument, and the actions try both.       *)
(* A u32 is held as its two's-complement representative:  *)
(* v below 2^31 as v, and 2^32 - k (the result of wrapping below zero) as  *)
(* -k.  Wrapping addition and subtraction are then integer addition and    *)
(* subtraction; the comparisons are the unsigned ones.                     *)
(***************************************************************************)
Lt32(a, b) == IF (a < 0) = (b < 0) THEN a < b ELSE b < 0

Ge32(a, b) == ~Lt32(a, b)

Gt32(a, b) == Lt32(b, a)

\* a + b leaves the u32 range
AddOverflows(a, b) == (a < 0 /\ b < 0) \/ (a < 0 /\ b >= 0 /\ a + b >= 0)
                          \/ (b < 0 /\ a >= 0 /\ a + b >= 0)

\* a - b leaves the u32 range
SubOverflows(a, b) == Lt32(a, b)

\* `!class > 2` (lib.rs 220): `!` is the bitwise complement of the u32 and
\* binds tighter than `>`; computed on the two 16-bit halves of class.
NotClassGt2(class) ==
    LET hi == 65535 - (class \div 65536)
        lo == 65535 - (class % 65536)
    IN  hi > 0 \/ lo > 2

(***************************************************************************)
(* Storage accessors                                                       *)
(***************************************************************************)
\* The record get_player_stats gives an unknown address, stored as the
\* record of a new player.
BaselineStat_zero(user) ==
    [player_address |-> user, sword_class |-> 0, health |-> 0, attack |-> 0,
     defense |-> 0, in_battle |-> FALSE, has_sword |-> FALSE]

BaselineStat(user) ==
    [player_address |-> user, sword_class |-> 0, health |-> 100, attack |-> 10,
     defense |-> 10, in_battle |-> FALSE, has_sword |-> FALSE]

get_player_stats(s, user) ==
    IF user \in DOMAIN s.player
    THEN s.player[user]
    ELSE [player_address |-> ContractId, sword_class |-> 0, health |-> 0, attack |-> 0,
          defense |-> 0, in_battle |-> FALSE, has_sword |-> FALSE]

\* set_player_stats that files the record under the address it carries
\* instead of the `user` argument.
set_player_stats_by_record(s, user, player_stat) ==
    [s EXCEPT !.player = MapSet(@, player_stat.player_address, player_stat)]

set_player_stats(s, user, player_stat) ==
    [s EXCEPT !.player = MapSet(@, user, player_stat)]

get_battle(s, name) ==
    IF name \in DOMAIN s.battle
    THEN s.battle[name]
    ELSE [battle_status |-> Pending, name |-> name,
          players |-> Map2(ContractId, 1, ContractId, 2),
          moves |-> Map2(ContractId, 0, ContractId, 0),
          winner |-> ContractId]

set_battle(s, name, b) == [s EXCEPT !.battle = MapSet(@, name, b)]

\* The outcome of an invocation: it ran to completion, or it panicked and
\* the storage is the one before the call.
Done(s) == [ok |-> TRUE, s |-> s]

Panic(s) == [ok |-> FALSE, s |-> s]

(***************************************************************************)
(* Entry points                                                            *)
(***************************************************************************)
\* add_player that keeps the record of an address already registered.
add_player_keeping(s, user) ==
    Done([s EXCEPT !.player = IF user \in DOMAIN @ THEN @
                              ELSE MapSet(@, user, BaselineStat(user)),
                   !.players = Append(@, user)])

add_player(s, user) ==
    Done([s EXCEPT !.player = MapSet(@, user, BaselineStat(user)),
                   !.players = Append(@, user)])

\* create_battle without its "Player already in battle" assert.
create_battle_unchecked(s, name, user) ==
    LET s1 == set_battle(s, name,
                  [battle_status |-> Pending, name |-> name,
                   players |-> Map2(user, 1, ContractId, 2),
                   moves |-> Map2(user, 0, ContractId, 0),
                   winner |-> ContractId])
        p  == get_player_stats(s1, user)
    IN  Done([set_player_stats(s1, user, [p EXCEPT !.in_battle = TRUE])
                 EXCEPT !.battles = Append(s1.battles, name)])

\* create_battle whose rejection leaves behind the battle record it wrote
\* before the check.
create_battle_torn(s, name, user) ==
    LET s1 == set_battle(s, name,
                  [battle_status |-> Pending, name |-> name,
                   players |-> Map2(user, 1, ContractId, 2),
                   moves |-> Map2(user, 0, ContractId, 0),
                   winner |-> ContractId])
        p  == get_player_stats(s1, user)
    IN  IF p.in_battle THEN Panic(s1)
        ELSE Done([set_player_stats(s1, user, [p EXCEPT !.in_battle = TRUE])
                      EXCEPT !.battles = Append(s1.battles, name)])

create_battle(s, name, user) ==
    LET s1 == set_battle(s, name,
                  [battle_status |-> Pending, name |-> name,
                   players |-> Map2(user, 1, ContractId, 2),
                   moves |-> Map2(user, 0, ContractId, 0),
                   winner |-> ContractId])
        p  == get_player_stats(s1, user)
    IN  IF p.in_battle THEN Panic(s)
        ELSE Done([set_player_stats(s1, user, [p EXCEPT !.in_battle = TRUE])
                      EXCEPT !.battles = Append(s1.battles, name)])

create_auto_battle(s, name, user) ==
    LET s1 == set_battle(s, name,
                  [battle_status |-> Started, name |-> name,
                   players |-> Map2(user, 1, ContractId, 2),
                   moves |-> Map2(user, 0, ContractId, 0),
                   winner |-> ContractId])
    IN  Done([s1 EXCEPT !.battles = Append(@, name)])

\* join_battle without its "Player already in battle" assert.
join_battle_unchecked(s, name, user) ==
    LET b == get_battle(s, name)
        p == get_player_stats(s, user)
        player_1 == KeyAt(b.players, 0, ContractId)
        b1 == [b EXCEPT !.players = Map2(player_1, 1, user, 2),
                        !.moves = Map2(player_1, 0, user, 0),
                        !.battle_status = Started]
    IN  IF b.battle_status # Pending THEN Panic(s)
        ELSE Done(set_player_stats(set_battle(s, name, b1), user,
                                   [p EXCEPT !.in_battle = TRUE]))

join_battle(s, name, user) ==
    LET b == get_battle(s, name)
        p == get_player_stats(s, user)
        player_1 == KeyAt(b.players, 0, ContractId)
        b1 == [b EXCEPT !.players = Map2(player_1, 1, user, 2),
                        !.moves = Map2(player_1, 0, user, 0),
                        !.battle_status = Started]
    IN  IF b.battle_status # Pending THEN Panic(s)
        ELSE IF p.in_battle THEN Panic(s)
        ELSE Done(set_player_stats(set_battle(s, name, b1), user,
                                   [p EXCEPT !.in_battle = TRUE]))

(***************************************************************************)
(* The token ledger (balance.rs) and the calls forge_blade / melt_blade    *)
(* make into it.                                                           *)
(***************************************************************************)
\* balance.rs 10 and 20: the map read for an address never written.
DefaultBalance == [token_id \in 1 .. 3 |-> 0]

read_balance(s, addr) == MapGetOr(s.balance, addr, DefaultBalance)

\* balance.rs 14-30.  `token_balance_map.keys().set(token_id, amount)` puts
\* the amount at POSITION token_id of the vector of keys, a temporary; the
\* map itself is stored back as it was read.  Vec::set at a position outside
\* the vector is a host error, which fails the invocation.
write_balance(s, addr, token_id, amount) ==
    LET token_balance_map == read_balance(s, addr)
        keys_len == Cardinality(DOMAIN token_balance_map)
    IN  IF ~Lt32(token_id, keys_len) THEN Panic(s)
        ELSE Done([s EXCEPT !.balance = MapSet(@, addr, token_balance_map)])

receive_balance(s, addr, token_id, amount) ==
    write_balance(s, addr, token_id,
                  MapGetOr(read_balance(s, addr), token_id, 0) + amount)

spend_balance(s, addr, token_id) == write_balance(s, addr, token_id, 0)

\* SwordContract::mint_nft(env, to, class, 1) as called at lib.rs 247:
\* records `amount` units of the class for `to` in the ledger.  (The
\* metadata record it also persists is descriptive only and is not part of
\* the state.)
SwordContract_mint_nft(s, to, token_id, amount) ==
    receive_balance(s, to, token_id, amount)

\* SwordContract::melt_blade(env, from, class) as called at lib.rs 257:
\* zeroes the ledger quantity of the class for `from`.
SwordContract_melt_blade(s, from, token_id) == spend_balance(s, from, token_id)

\* The stat deltas of a sword class (lib.rs 223-244); sub = TRUE is `-=`.
ForgeDelta(class) ==
    IF class = 2 THEN [health |-> 3, hsub |-> TRUE, attack |-> 16, defense |-> 2, dsub |-> FALSE]
    ELSE IF class = 3 THEN [health |-> 7, hsub |-> FALSE, attack |-> 11, defense |-> 3, dsub |-> TRUE]
    ELSE [health |-> 8, hsub |-> FALSE, attack |-> 4, defense |-> 3, dsub |-> FALSE]

\* forge_blade without its `must not own a sword` assert.
forge_blade_stacking(s, to, class, overflow_checks) ==
    LET p == get_player_stats(s, to)
        d == ForgeDelta(class)
        ovf == (IF d.hsub THEN SubOverflows(p.health, d.health)
                          ELSE AddOverflows(p.health, d.health))
               \/ AddOverflows(p.attack, d.attack)
               \/ (IF d.dsub THEN SubOverflows(p.defense, d.defense)
                             ELSE AddOverflows(p.defense, d.defense))
        p1 == [p EXCEPT !.health = IF d.hsub THEN @ - d.health ELSE @ + d.health,
                        !.attack = @ + d.attack,
                        !.defense = IF d.dsub THEN @ - d.defense ELSE @ + d.defense,
                        !.sword_class = class,
                        !.has_sword = TRUE]
        m == SwordContract_mint_nft(s, to, class, 1)
    IN  IF p.in_battle THEN Panic(s)
        ELSE IF ~NotClassGt2(class) THEN Panic(s)
        ELSE IF overflow_checks /\ ovf THEN Panic(s)
        ELSE IF ~m.ok THEN Panic(s)
        ELSE Done(set_player_stats(m.s, to, p1))

forge_blade(s, to, class, overflow_checks) ==
    LET p == get_player_stats(s, to)
        d == ForgeDelta(class)
        ovf == (IF d.hsub THEN SubOverflows(p.health, d.health)
                          ELSE AddOverflows(p.health, d.health))
               \/ AddOverflows(p.attack, d.attack)
               \/ (IF d.dsub THEN SubOverflows(p.defense, d.defense)
                             ELSE AddOverflows(p.defense, d.defense))
        p1 == [p EXCEPT !.health = IF d.hsub THEN @ - d.health ELSE @ + d.health,
                        !.attack = @ + d.attack,
                        !.defense = IF d.dsub THEN @ - d.defense ELSE @ + d.defense,
                        !.sword_class = class,
                        !.has_sword = TRUE]
        m == SwordContract_mint_nft(s, to, class, 1)
    IN  IF p.has_sword THEN Panic(s)
        ELSE IF p.in_battle THEN Panic(s)
        ELSE IF ~NotClassGt2(class) THEN Panic(s)
        ELSE IF overflow_checks /\ ovf THEN Panic(s)
        ELSE IF ~m.ok THEN Panic(s)
        ELSE Done(set_player_stats(m.s, to, p1))

\* melt_blade without its `Can't melt blade while in battle` assert.
melt_blade_in_battle(s, from, class) ==
    LET p == get_player_stats(s, from)
        m == SwordContract_melt_blade(s, from, class)
    IN  IF ~p.has_sword THEN Panic(s)
        ELSE IF ~m.ok THEN Panic(s)
        ELSE Done(set_player_stats(m.s, from,
                      [p EXCEPT !.health = 100, !.attack = 10, !.defense = 10,
                                !.sword_class = 0, !.has_sword = FALSE]))

melt_blade(s, from, class) ==
    LET p == get_player_stats(s, from)
        m == SwordContract_melt_blade(s, from, class)
    IN  IF ~p.has_sword THEN Panic(s)
        ELSE IF p.in_battle THEN Panic(s)
        ELSE IF ~m.ok THEN Panic(s)
        ELSE Done(set_player_stats(m.s, from,
                      [p EXCEPT !.health = 100, !.attack = 10, !.defense = 10,
                                !.sword_class = 0, !.has_sword = FALSE]))

challenge_bot(s, user, name) ==
    LET b == get_battle(s, name)
    IN  IF b.battle_status # Pending THEN Panic(s)
        ELSE Done(set_battle(s, name,
                      [b EXCEPT !.players = Map2(user, 1, ContractId, 2),
                                !.battle_status = Started]))

increase_health(s, user, incr, overflow_checks) ==
    LET p == get_player_stats(s, user)
    IN  IF overflow_checks /\ AddOverflows(p.health, incr) THEN Panic(s)
        ELSE Done(set_player_stats(s, user, [p EXCEPT !.health = @ + incr]))

decrease_health(s, user, decr, overflow_checks) ==
    LET p == get_player_stats(s, user)
    IN  IF overflow_checks /\ SubOverflows(p.health, decr) THEN Panic(s)
        ELSE Done(set_player_stats(s, user, [p EXCEPT !.health = @ - decr]))

end_battle(s, name, winner) ==
    LET b0 == get_battle(s, name)
        b  == [b0 EXCEPT !.battle_status = Ended, !.winner = winner]
        user_1 == KeyAt(b.players, 0, ContractId)
        user_2 == KeyAt(b.players, 1, ContractId)
        user_1_stats == [get_player_stats(s, user_1) EXCEPT !.in_battle = FALSE, !.health = 100]
        user_2_stats == [get_player_stats(s, user_2) EXCEPT !.in_battle = FALSE, !.health = 100]
    IN  \* user_2_stats is computed and dropped: only user_1's record is written
        Done(set_battle(set_player_stats(s, user_1, user_1_stats), name, b))

\* The branch of the outcome table taken for the two recorded moves
\* (lib.rs 570-616): which participant wins, if any.  First the table with
\* `>` in place of `>=` in its four lethality tests, then the table.
ResolutionWinner_strict(s, name) ==
    LET b == get_battle(s, name)
        user_1 == KeyAt(b.players, 0, ContractId)
        user_2 == KeyAt(b.players, 1, ContractId)
        m1 == MapGetOr(b.moves, user_1, 0)
        m2 == MapGetOr(b.moves, user_2, 0)
        s1 == get_player_stats(s, user_1)
        s2 == get_player_stats(s, user_2)
    IN  IF m1 = 1 /\ m2 = 1 THEN
            IF Gt32(s1.attack, s2.health) THEN {user_1}
            ELSE IF Gt32(s2.attack, s1.health) THEN {user_2} ELSE {}
        ELSE IF m1 = 1 /\ m2 = 2 THEN
            IF Gt32(s1.attack, s2.health + s2.defense) THEN {user_1} ELSE {}
        ELSE IF m1 = 2 /\ m2 = 1 THEN
            IF Gt32(s2.attack, s1.health + s1.defense) THEN {user_2} ELSE {}
        ELSE {}

ResolutionWinner(s, name) ==
    LET b == get_battle(s, name)
        user_1 == KeyAt(b.players, 0, ContractId)
        user_2 == KeyAt(b.players, 1, ContractId)
        m1 == MapGetOr(b.moves, user_1, 0)
        m2 == MapGetOr(b.moves, user_2, 0)
        s1 == get_player_stats(s, user_1)
        s2 == get_player_stats(s, user_2)
    IN  IF m1 = 1 /\ m2 = 1 THEN
            IF Ge32(s1.attack, s2.health) THEN {user_1}
            ELSE IF Ge32(s2.attack, s1.health) THEN {user_2} ELSE {}
        ELSE IF m1 = 1 /\ m2 = 2 THEN
            IF Ge32(s1.attack, s2.health + s2.defense) THEN {user_1} ELSE {}
        ELSE IF m1 = 2 /\ m2 = 1 THEN
            IF Ge32(s2.attack, s1.health + s1.defense) THEN {user_2} ELSE {}
        ELSE {}

\* await_battle_results writing its record back without the reset of the
\* move slots at lib.rs 618.
await_battle_results_keeping_moves(s, name, caller, overflow_checks) ==
    LET battle0 == get_battle(s, name)
        user_1 == KeyAt(battle0.players, 0, ContractId)
        user_2 == KeyAt(battle0.players, 1, ContractId)
        user_1_move == MapGetOr(battle0.moves, user_1, 0)
        user_2_move == MapGetOr(battle0.moves, user_2, 0)
        user_1_stats == get_player_stats(s, user_1)
        user_2_stats == get_player_stats(s, user_2)
        user_1_attack == user_1_stats.attack
        user_2_attack == user_2_stats.attack
        user_1_defense == user_1_stats.defense
        user_2_defense == user_2_stats.defense
        user_1_health == user_1_stats.health
        user_2_health == user_2_stats.health
        user_2_phad == user_2_health + user_2_defense
        user_1_phad == user_1_health + user_1_defense
        phad_ovf == AddOverflows(user_2_health, user_2_defense)
                    \/ AddOverflows(user_1_health, user_1_defense)
        win == ResolutionWinner(s, name)
        r == IF win # {} THEN end_battle(s, name, CHOOSE w \in win : TRUE)
             ELSE IF user_1_move = 1 /\ user_2_move = 1 THEN
                 LET r1 == decrease_health(s, user_1, user_2_attack, overflow_checks)
                 IN  IF ~r1.ok THEN r1
                     ELSE decrease_health(r1.s, user_2, user_1_attack, overflow_checks)
             ELSE IF user_1_move = 1 /\ user_2_move = 2 THEN
                 Done(set_player_stats(s, user_2,
                     [user_2_stats EXCEPT !.health =
                         IF Gt32(user_2_defense, user_1_attack) THEN user_2_health
                         ELSE user_2_phad - user_1_attack]))
             ELSE IF user_1_move = 2 /\ user_2_move = 1 THEN
                 Done(set_player_stats(s, user_1,
                     [user_1_stats EXCEPT !.health =
                         IF Gt32(user_1_defense, user_2_attack) THEN user_1_health
                         ELSE user_1_phad - user_2_attack]))
             ELSE IF user_1_move = 2 /\ user_2_move = 2 THEN
                 LET r1 == increase_health(s, user_1, 2, overflow_checks)
                 IN  IF ~r1.ok THEN r1
                     ELSE increase_health(r1.s, user_2, 2, overflow_checks)
             ELSE Done(s)
    IN  IF user_1_move = 0 \/ user_2_move = 0 THEN Panic(s)
        ELSE IF overflow_checks /\ phad_ovf THEN Panic(s)
        ELSE IF ~r.ok THEN Panic(s)
        ELSE Done(set_battle(r.s, name, battle0))

await_battle_results(s, name, caller, overflow_checks) ==
    LET battle0 == get_battle(s, name)
        user_1 == KeyAt(battle0.players, 0, ContractId)
        user_2 == KeyAt(battle0.players, 1, ContractId)
        user_1_move == MapGetOr(battle0.moves, user_1, 0)
        user_2_move == MapGetOr(battle0.moves, user_2, 0)
        user_1_stats == get_player_stats(s, user_1)
        user_2_stats == get_player_stats(s, user_2)
        user_1_attack == user_1_stats.attack
        user_2_attack == user_2_stats.attack
        user_1_defense == user_1_stats.defense
        user_2_defense == user_2_stats.defense
        user_1_health == user_1_stats.health
        user_2_health == user_2_stats.health
        user_2_phad == user_2_health + user_2_defense
        user_1_phad == user_1_health + user_1_defense
        phad_ovf == AddOverflows(user_2_health, user_2_defense)
                    \/ AddOverflows(user_1_health, user_1_defense)
        win == ResolutionWinner(s, name)
        r == IF win # {} THEN end_battle(s, name, CHOOSE w \in win : TRUE)
             ELSE IF user_1_move = 1 /\ user_2_move = 1 THEN
                 LET r1 == decrease_health(s, user_1, user_2_attack, overflow_checks)
                 IN  IF ~r1.ok THEN r1
                     ELSE decrease_health(r1.s, user_2, user_1_attack, overflow_checks)
             ELSE IF user_1_move = 1 /\ user_2_move = 2 THEN
                 Done(set_player_stats(s, user_2,
                     [user_2_stats EXCEPT !.health =
                         IF Gt32(user_2_defense, user_1_attack) THEN user_2_health
                         ELSE user_2_phad - user_1_attack]))
             ELSE IF user_1_move = 2 /\ user_2_move = 1 THEN
                 Done(set_player_stats(s, user_1,
                     [user_1_stats EXCEPT !.health =
                         IF Gt32(user_1_defense, user_2_attack) THEN user_1_health
                         ELSE user_1_phad - user_2_attack]))
             ELSE IF user_1_move = 2 /\ user_2_move = 2 THEN
                 LET r1 == increase_health(s, user_1, 2, overflow_checks)
                 IN  IF ~r1.ok THEN r1
                     ELSE increase_health(r1.s, user_2, 2, overflow_checks)
             ELSE Done(s)
    IN  IF user_1_move = 0 \/ user_2_move = 0 THEN Panic(s)
        ELSE IF overflow_checks /\ phad_ovf THEN Panic(s)
        ELSE IF ~r.ok THEN Panic(s)
        ELSE \* the record read at entry is written back with the moves reset
             Done(set_battle(r.s, name,
                      [battle0 EXCEPT !.moves = Map2(user_1, 0, user_2, 0)]))

register_player_move(s, user, choice, battle_name) ==
    LET b == get_battle(s, battle_name)
    IN  set_battle(s, battle_name, [b EXCEPT !.moves = MapSet(@, user, choice)])

\* attack_or_defend_choice without its "already made your move" assert_eq
\* (the earlier draft of the contract, src/lib.rs 285-310, has none).
attack_or_defend_choice_overwriting(s, user, choice, battle_name, overflow_checks) ==
    LET b  == get_battle(s, battle_name)
        s1 == register_player_move(s, user, choice, battle_name)
        b1 == get_battle(s1, battle_name)
        moves_left == 2 - (IF MapGetOr(b1.moves, user, 0) = 0 THEN 1 ELSE 0)
                        - (IF MapGetOr(b1.moves, ContractId, 0) = 0 THEN 1 ELSE 0)
        r  == await_battle_results(s1, battle_name, user, overflow_checks)
    IN  IF ~(choice = 1 \/ choice = 2) THEN Panic(s)
        ELSE IF b.battle_status # Started THEN Panic(s)
        ELSE IF user \notin DOMAIN b.players THEN Panic(s)
        ELSE IF moves_left = 0 THEN (IF r.ok THEN r ELSE Panic(s))
        ELSE Done(s1)

\* The entry point without its check of the choice, as the earlier draft of
\* the contract had it.
attack_or_defend_choice_any_choice(s, user, choice, battle_name, overflow_checks) ==
    LET b  == get_battle(s, battle_name)
        s1 == register_player_move(s, user, choice, battle_name)
        b1 == get_battle(s1, battle_name)
        moves_left == 2 - (IF MapGetOr(b1.moves, user, 0) = 0 THEN 1 ELSE 0)
                        - (IF MapGetOr(b1.moves, ContractId, 0) = 0 THEN 1 ELSE 0)
        r  == await_battle_results(s1, battle_name, user, overflow_checks)
    IN  IF b.battle_status # Started THEN Panic(s)
        ELSE IF user \notin DOMAIN b.players THEN Panic(s)
        ELSE IF MapGetOr(b.moves, user, 0) # 0 THEN Panic(s)
        ELSE IF moves_left = 0 THEN (IF r.ok THEN r ELSE Panic(s))
        ELSE Done(s1)

attack_or_defend_choice(s, user, choice, battle_name, overflow_checks) ==
    LET b  == get_battle(s, battle_name)
        s1 == register_player_move(s, user, choice, battle_name)
        b1 == get_battle(s1, battle_name)
        moves_left == 2 - (IF MapGetOr(b1.moves, user, 0) = 0 THEN 1 ELSE 0)
                        - (IF MapGetOr(b1.moves, ContractId, 0) = 0 THEN 1 ELSE 0)
        r  == await_battle_results(s1, battle_name, user, overflow_checks)
    IN  IF ~(choice = 1 \/ choice = 2) THEN Panic(s)
        ELSE IF b.battle_status # Started THEN Panic(s)
        ELSE IF user \notin DOMAIN b.players THEN Panic(s)
        ELSE IF MapGetOr(b.moves, user, 0) # 0 THEN Panic(s)
        ELSE IF moves_left = 0 THEN (IF r.ok THEN r ELSE Panic(s))
        ELSE Done(s1)

(***************************************************************************)
(* The state machine: any caller may invoke any entry point at any time;   *)
(* each invocation is one atomic transaction.  require_auth() restricts    *)
(* the `user` argument to an address that signs, i.e. a user; challenge_bot*)
(* performs no require_auth, so its `user` is any address.                 *)
(***************************************************************************)
\* class arguments tried for forge_blade / melt_blade, choices for a move
Classes == 0 .. 4

Choices == 0 .. 3

Init ==
    /\ player = <<>>
    /\ battle = <<>>
    /\ players = <<>>
    /\ battles = <<>>
    /\ balance = <<>>
    /\ rounds = 0

\* The call completed and its store is the next state.
Commit(r) ==
    /\ r.ok
    /\ Len(r.s.players) <= MaxPlayers
    /\ Len(r.s.battles) <= MaxBattles
    /\ player' = r.s.player
    /\ battle' = r.s.battle
    /\ players' = r.s.players
    /\ battles' = r.s.battles
    /\ balance' = r.s.balance

AddPlayer == \E u \in Users : Commit(add_player(Store, u)) /\ UNCHANGED rounds

ForgeBlade ==
    \E u \in Users, c \in Classes, chk \in BOOLEAN :
        Commit(forge_blade(Store, u, c, chk)) /\ UNCHANGED rounds

MeltBlade == \E u \in Users, c \in Classes : Commit(melt_blade(Store, u, c)) /\ UNCHANGED rounds

CreateBattle == \E n \in Names, u \in Users : Commit(create_battle(Store, n, u)) /\ UNCHANGED rounds

CreateAutoBattle ==
    \E n \in Names, u \in Users : Commit(create_auto_battle(Store, n, u)) /\ UNCHANGED rounds

JoinBattle == \E n \in Names, u \in Users : Commit(join_battle(Store, n, u)) /\ UNCHANGED rounds

ChallengeBot == \E n \in Names, u \in Address : Commit(challenge_bot(Store, u, n)) /\ UNCHANGED rounds

AttackOrDefendChoice ==
    \E n \in Names, u \in Users, c \in Choices, chk \in BOOLEAN :
        Commit(attack_or_defend_choice(Store, u, c, n, chk)) /\ UNCHANGED rounds

\* The private resolution step applied to a battle whose two moves are in,
\* as the call at lib.rs 496 is meant to apply it.
AwaitBattleResults ==
    \E n \in Names, u \in Users, chk \in BOOLEAN :
        /\ rounds < MaxRounds
        /\ Commit(await_battle_results(Store, n, u, chk))
        /\ rounds' = rounds + 1

\* The battle engine: registration, battle lifecycle and move submission.
Next ==
    \/ AddPlayer
    \/ CreateBattle
    \/ CreateAutoBattle
    \/ JoinBattle
    \/ ChallengeBot
    \/ AttackOrDefendChoice

Spec == Init /\ [][Next]_vars

\* Battles between two users with the resolution step taken when both moves
\* are in.  (A battle against the automated opponent never has both moves
\* in: the contract's address submits none.)
NextR ==
    \/ AddPlayer
    \/ CreateBattle
    \/ JoinBattle
    \/ AttackOrDefendChoice
    \/ AwaitBattleResults

SpecR == Init /\ [][NextR]_vars

\* The store the test create_and_join_battle builds (test.rs 100-153):
\* creator creates battle name and joiner joins it, each of the two having
\* called add_player first if it is in registered.
OpenedBattle(name, creator, joiner, registered) ==
    LET s0 == [player |-> <<>>, battle |-> <<>>, players |-> <<>>,
               battles |-> <<>>, balance |-> <<>>]
        s1 == IF creator \in registered THEN add_player(s0, creator).s ELSE s0
        s2 == create_battle(s1, name, creator).s
        s3 == IF joiner \in registered THEN add_player(s2, joiner).s ELSE s2
    IN  join_battle(s3, name, joiner).s

InitRound ==
    \E n \in Names, creator \in Users, registered \in SUBSET Users :
        \E joiner \in Users \ {creator} :
            LET s == OpenedBattle(n, creator, joiner, registered)
            IN  /\ player = s.player
                /\ battle = s.battle
                /\ players = s.players
                /\ battles = s.battles
                /\ balance = s.balance
                /\ rounds = 0

\* The rounds of one opened battle: moves, and the resolution step taken
\* when both moves are in.
NextRound ==
    \/ AttackOrDefendChoice
    \/ AwaitBattleResults

SpecRound == InitRound /\ [][NextRound]_vars

\* The resolution step of AwaitBattleResults, for a battle played over many
\* rounds.
ResolveRound ==
    \E n \in Names, u \in Users, chk \in BOOLEAN :
        /\ rounds < MaxBout
        /\ Commit(await_battle_results(Store, n, u, chk))
        /\ rounds' = rounds + 1

\* One opened battle played round after round until the attributes are
\* worn down to the point where a branch of the outcome table ends it.
NextBout ==
    \/ AttackOrDefendChoice
    \/ ResolveRound

SpecBout == InitRound /\ [][NextBout]_vars

\* The equipment side: players forge and melt blades, and enter battles,
\* which blocks both.
NextSword ==
    \/ AddPlayer
    \/ ForgeBlade
    \/ MeltBlade
    \/ CreateBattle
    \/ JoinBattle

SpecSword == Init /\ [][NextSword]_vars

\* The player registry alone: records are written by registration, forging
\* and melting.
NextRegistry ==
    \/ AddPlayer
    \/ ForgeBlade
    \/ MeltBlade

SpecRegistry == Init /\ [][NextRegistry]_vars

\* Move submission alone: battles are opened, joined or set against the
\* automated opponent, and seated callers submit choices.
NextMoves ==
    \/ AddPlayer
    \/ CreateBattle
    \/ JoinBattle
    \/ ChallengeBot
    \/ AttackOrDefendChoice

SpecMoves == Init /\ [][NextMoves]_vars

\* The entry points that can fail, called by addresses that never
\* registered (the contract does not require registration).
NextCalls ==
    \/ CreateBattle
    \/ JoinBattle
    \/ ChallengeBot
    \/ ForgeBlade
    \/ MeltBlade
    \/ AttackOrDefendChoice

SpecCalls == Init /\ [][NextCalls]_vars

(***************************************************************************)
(* The earlier draft of the contract (src/src/lib.rs): its PlayerStat has  *)
(* no sword fields, and the health updates are public entry points that    *)
(* perform no require_auth.  An outcome carries the value returned.        *)
(***************************************************************************)
draft_get_player_stats(s, user) ==
    IF user \in DOMAIN s.player
    THEN s.player[user]
    ELSE [player_address |-> ContractId, health |-> 0, attack |-> 0,
          defense |-> 0, in_battle |-> FALSE]

draft_set_player_stats(s, user, player_stat) ==
    [s EXCEPT !.player = MapSet(@, user, player_stat)]

draft_add_player(s, user) ==
    Done([draft_set_player_stats(s, user,
              [player_address |-> user, health |-> 100, attack |-> 10,
               defense |-> 10, in_battle |-> FALSE])
             EXCEPT !.players = Append(@, user)])

draft_increase_health(s, user, incr, overflow_checks) ==
    LET player_stat == draft_get_player_stats(s, user)
        new == [player_stat EXCEPT !.health = @ + incr]
    IN  IF overflow_checks /\ AddOverflows(player_stat.health, incr)
        THEN [ok |-> FALSE, s |-> s, ret |-> 0]
        ELSE [ok |-> TRUE, s |-> draft_set_player_stats(s, user, new),
              ret |-> new.health]

draft_decrease_health(s, user, decr, overflow_checks) ==
    LET player_stat == draft_get_player_stats(s, user)
        new == [player_stat EXCEPT !.health = @ - decr]
    IN  IF overflow_checks /\ SubOverflows(player_stat.health, decr)
        THEN [ok |-> FALSE, s |-> s, ret |-> 0]
        ELSE [ok |-> TRUE, s |-> draft_set_player_stats(s, user, new),
              ret |-> new.health]

\* amounts tried for a health update: those of the draft's tests, and one
\* above the baseline health
Amounts == {1, 2, 9, 10, 200}

DraftAddPlayer == \E u \in Users : Commit(draft_add_player(Store, u)) /\ UNCHANGED rounds

DraftIncreaseHealth ==
    \E u \in Users, n \in Amounts, chk \in BOOLEAN :
        /\ rounds < MaxDraftCalls
        /\ Commit(draft_increase_health(Store, u, n, chk))
        /\ rounds' = rounds + 1

DraftDecreaseHealth ==
    \E u \in Users, n \in Amounts, chk \in BOOLEAN :
        /\ rounds < MaxDraftCalls
        /\ Commit(draft_decrease_health(Store, u, n, chk))
        /\ rounds' = rounds + 1

NextDraft ==
    \/ DraftAddPlayer
    \/ DraftIncreaseHealth
    \/ DraftDecreaseHealth

SpecDraft == Init /\ [][NextDraft]_vars

(***************************************************************************)
(* Vocabulary of the properties                                            *)
(***************************************************************************)
\* The step taken is the invocation whose outcome is r.
Took(r) ==
    /\ r.ok
    /\ player' = r.s.player
    /\ battle' = r.s.battle
    /\ players' = r.s.players
    /\ battles' = r.s.battles
    /\ balance' = r.s.balance

\* The addresses holding seat k of battle record b.
Seat(b, k) == {a \in DOMAIN b.players : b.players[a] = k}

\* Every seated address has a move recorded for the round.
BothSeatsMoved(b) == \A a \in DOMAIN b.players : MapGetOr(b.moves, a, 0) # 0

\* Every move slot of the record is empty.
SlotsEmpty(b) == \A a \in DOMAIN b.moves : b.moves[a] = 0

Active(b) == b.battle_status \in {Pending, Started}

\* The record seats two distinct users.
TwoUsersSeated(b) ==
    /\ DOMAIN b.players \subseteq Users
    /\ Cardinality(DOMAIN b.players) = 2

(***************************************************************************)
(* C1.  A successful attack_or_defend_choice after whose recording both    *)
(* seats hold a non-zero move runs the resolution before it returns: on    *)
(* return both move slots are 0 again or the battle is Ended.  Stated for  *)
(* a battle between two users, whichever of them submits second.           *)
(***************************************************************************)
C1_ResolvedInSameCall ==
    [][\A n \in Names, u \in Users, c \in Choices, chk \in BOOLEAN :
          (/\ Took(attack_or_defend_choice(Store, u, c, n, chk))
           /\ TwoUsersSeated(get_battle(Store, n))
           /\ BothSeatsMoved(get_battle(register_player_move(Store, u, c, n), n)))
          => (SlotsEmpty(battle'[n]) \/ battle'[n].battle_status = Ended)]_vars

(***************************************************************************)
(* C2.  A resolution that takes a terminal branch leaves the stored battle *)
(* with status Ended and winner the winning participant.                   *)
(***************************************************************************)
C2_TerminalBranchStoresEnded ==
    [][\A n \in Names, u \in Users, chk \in BOOLEAN :
          (/\ Took(await_battle_results(Store, n, u, chk))
           /\ ResolutionWinner(Store, n) # {})
          => (/\ battle'[n].battle_status = Ended
              /\ battle'[n].winner \in ResolutionWinner(Store, n))]_vars

(***************************************************************************)
(* C3.  When a battle ends, both participants are stored with              *)
(* in_battle = FALSE and health = 100.                                     *)
(***************************************************************************)
C3_BothReleasedAtEnd ==
    [][\A n \in Names, u \in Users, chk \in BOOLEAN :
          (/\ Took(await_battle_results(Store, n, u, chk))
           /\ ResolutionWinner(Store, n) # {})
          => \A a \in DOMAIN battle[n].players :
                 /\ a \in DOMAIN player'
                 /\ ~player'[a].in_battle
                 /\ player'[a].health = 100]_vars

(***************************************************************************)
(* C4.  Every player whose in_battle flag is true holds a seat of exactly  *)
(* one battle whose status is Pending or Started.                          *)
(***************************************************************************)
C4_InBattleMeansSeatedOnce ==
    \A a \in DOMAIN player :
        player[a].in_battle =>
            Cardinality({n \in DOMAIN battle :
                            a \in DOMAIN battle[n].players /\ Active(battle[n])}) = 1

(***************************************************************************)
(* C5.  join_battle(name, B) on a Pending battle created by A (A # B)      *)
(* stores the battle Started with A in seat 1 and B in seat 2, both move   *)
(* slots 0 and B.in_battle = TRUE, whatever the order of the addresses.    *)
(***************************************************************************)
C5_JoinKeepsCreatorInSeat1 ==
    [][\A n \in Names, B \in Users, A \in Users :
          (/\ Took(join_battle(Store, n, B))
           /\ n \in DOMAIN battle
           /\ battle[n].battle_status = Pending
           /\ Seat(battle[n], 1) = {A}
           /\ A # B)
          => (/\ battle'[n].battle_status = Started
              /\ battle'[n].players = Map2(A, 1, B, 2)
              /\ battle'[n].moves = Map2(A, 0, B, 0)
              /\ player'[B].in_battle)]_vars

(***************************************************************************)
(* C6.  join_battle fails, leaving every battle and player record as it    *)
(* was, when the battle's status is not Pending or the joiner's in_battle  *)
(* flag is true.                                                           *)
(***************************************************************************)
C6_JoinRejected ==
    \A n \in Names, u \in Users :
        (get_battle(Store, n).battle_status # Pending \/ get_player_stats(Store, u).in_battle)
        => (/\ ~join_battle(Store, n, u).ok
            /\ join_battle(Store, n, u).s.battle = battle
            /\ join_battle(Store, n, u).s.player = player)

\* An address that is in no battle is refused by a Started battle it holds
\* no seat of, and an address that is in a battle is refused by the Pending
\* battle of another.
C6_Witness ==
    /\ \E n \in DOMAIN battle, u \in Users :
        /\ battle[n].battle_status = Started
        /\ u \notin DOMAIN battle[n].players
        /\ ~get_player_stats(Store, u).in_battle
        /\ ~join_battle(Store, n, u).ok
    /\ \E n \in DOMAIN battle, u \in Users :
        /\ battle[n].battle_status = Pending
        /\ u \notin DOMAIN battle[n].players
        /\ get_player_stats(Store, u).in_battle
        /\ ~join_battle(Store, n, u).ok

C8_AutoBattleRefusedInBattle ==
    [][\A n \in Names, A \in Users :
          Took(create_auto_battle(Store, n, A)) => ~get_player_stats(Store, A).in_battle]_vars

(***************************************************************************)
(* C9.  create_battle / create_auto_battle with the name of a stored       *)
(* battle that is Pending or Started does not replace or alter its record. *)
(***************************************************************************)
C9_NoCollisionWithActiveBattle ==
    [][\A n \in Names, u \in Users :
          (/\ n \in DOMAIN battle
           /\ Active(battle[n])
           /\ (Took(create_battle(Store, n, u)) \/ Took(create_auto_battle(Store, n, u))))
          => battle'[n] = battle[n]]_vars

(***************************************************************************)
(* C10.  In a Started battle a participant whose move slot is non-zero     *)
(* cannot submit again in the round: the call is rejected and the recorded *)
(* move keeps its first value.                                             *)
(***************************************************************************)
C10_SecondMoveRejected ==
    \A n \in Names, u \in Users, c \in Choices, chk \in BOOLEAN :
        LET b == get_battle(Store, n)
            r == attack_or_defend_choice(Store, u, c, n, chk)
        IN  (/\ b.battle_status = Started
             /\ u \in DOMAIN b.players
             /\ MapGetOr(b.moves, u, 0) # 0)
            => (/\ ~r.ok
                /\ get_battle(r.s, n).moves = b.moves)

\* A seated participant has moved, and tries the other choice.
C10_Witness ==
    \E n \in DOMAIN battle, u \in Users :
        /\ battle[n].battle_status = Started
        /\ u \in DOMAIN battle[n].players
        /\ MapGetOr(battle[n].moves, u, 0) = 1
        /\ ~attack_or_defend_choice(Store, u, 2, n, TRUE).ok

(***************************************************************************)
(* C11.  attack_or_defend_choice is rejected, and no battle record and no  *)
(* player record changes, when the choice is not 1 or 2, when the battle   *)
(* is not Started (Pending, Ended or never created), or when the caller    *)
(* holds no seat in the battle.                                            *)
(***************************************************************************)
C11_ChoiceRejected ==
    \A n \in Names, u \in Users, c \in Choices, chk \in BOOLEAN :
        LET b == get_battle(Store, n)
            r == attack_or_defend_choice(Store, u, c, n, chk)
        IN  (\/ c \notin {1, 2}
             \/ b.battle_status # Started
             \/ u \notin DOMAIN b.players)
            => (/\ ~r.ok
                /\ r.s.battle = battle
                /\ r.s.player = player)

\* A Pending battle refuses its creator's move, and a Started battle accepts
\* a seated user's Attack but refuses the same user's choice 3 and the
\* unseated user's move.
C11_Witness ==
    /\ \E n \in DOMAIN battle, u \in Users :
           /\ battle[n].battle_status = Pending
           /\ u \in DOMAIN battle[n].players
           /\ ~attack_or_defend_choice(Store, u, 1, n, TRUE).ok
    /\ \E n \in DOMAIN battle, u \in Users, v \in Users :
           /\ battle[n].battle_status = Started
           /\ u \in DOMAIN battle[n].players
           /\ v \notin DOMAIN battle[n].players
           /\ attack_or_defend_choice(Store, u, 1, n, TRUE).ok
           /\ ~attack_or_defend_choice(Store, u, 3, n, TRUE).ok
           /\ ~attack_or_defend_choice(Store, v, 1, n, TRUE).ok

(***************************************************************************)
(* C12.  When both participants of a Started battle have submitted Defend  *)
(* (2) in the same round, the call that brings in the second Defend leaves *)
(* each participant's health exactly 2 higher, attack and defense as they  *)
(* were, the battle Started and both move slots 0.  (Stated of battles     *)
(* between two registered users.)                                          *)
(***************************************************************************)
C12_BothDefend ==
    [][\A n \in Names, u \in Users, chk \in BOOLEAN :
          LET b == get_battle(Store, n)
          IN  (/\ TwoUsersSeated(b)
               /\ \A a \in DOMAIN b.players : \E i \in DOMAIN players : players[i] = a
               /\ b.battle_status = Started
               /\ \E v \in DOMAIN b.players \ {u} : MapGetOr(b.moves, v, 0) = 2
               /\ Took(attack_or_defend_choice(Store, u, 2, n, chk)))
              => (/\ \A a \in DOMAIN b.players :
                        /\ player'[a].health = get_player_stats(Store, a).health + 2
                        /\ player'[a].attack = get_player_stats(Store, a).attack
                        /\ player'[a].defense = get_player_stats(Store, a).defense
                  /\ battle'[n].battle_status = Started
                  /\ SlotsEmpty(battle'[n]))]_vars

C17_OneSwordAtATime ==
    /\ \A u \in Users :
           IF get_player_stats(Store, u).has_sword
           THEN \A c \in Classes, chk \in BOOLEAN :
                    LET forged == forge_blade(Store, u, c, chk)
                    IN  ~forged.ok /\ forged.s = Store
           ELSE \A c \in Classes :
                    LET melted == melt_blade(Store, u, c)
                    IN  ~melted.ok /\ melted.s = Store
    /\ \A i \in DOMAIN players :
           LET p == get_player_stats(Store, players[i])
               d == ForgeDelta(p.sword_class)
           IN  <<p.health, p.attack, p.defense>> =
                   IF p.has_sword
                   THEN <<IF d.hsub THEN 100 - d.health ELSE 100 + d.health,
                          10 + d.attack,
                          IF d.dsub THEN 10 - d.defense ELSE 10 + d.defense>>
                   ELSE <<100, 10, 10>>

\* One registered player holds a sword and is refused a second one; another
\* holds none and is refused a melt.
C17_Witness ==
    \E i, j \in DOMAIN players, chk \in BOOLEAN :
        /\ get_player_stats(Store, players[i]).has_sword
        /\ get_player_stats(Store, players[i]).sword_class = 1
        /\ ~get_player_stats(Store, players[i]).in_battle
        /\ ~forge_blade(Store, players[i], 2, chk).ok
        /\ ~get_player_stats(Store, players[j]).has_sword
        /\ ~get_player_stats(Store, players[j]).in_battle
        /\ ~melt_blade(Store, players[j], 1).ok

(***************************************************************************)
(* C18.  A player whose in_battle flag is true can neither forge_blade nor *)
(* melt_blade, nor create_battle nor join_battle: each of the four calls   *)
(* fails and changes no state.                                             *)
(***************************************************************************)
C18_InBattleBlocks ==
    \A u \in Users :
        get_player_stats(Store, u).in_battle
        => (/\ \A c \in Classes, chk \in BOOLEAN :
                   LET forged == forge_blade(Store, u, c, chk)
                   IN  ~forged.ok /\ forged.s = Store
            /\ \A c \in Classes :
                   LET melted == melt_blade(Store, u, c)
                   IN  ~melted.ok /\ melted.s = Store
            /\ \A n \in Names :
                   LET created == create_battle(Store, n, u)
                       joined  == join_battle(Store, n, u)
                   IN  /\ ~created.ok /\ created.s = Store
                       /\ ~joined.ok /\ joined.s = Store)

\* A player in a battle holds a sword it may not melt and is refused a seat
\* in another player's Pending battle; that other player, in a battle
\* without a sword, may not forge one.
C18_Witness ==
    \E u, v \in Users, n \in DOMAIN battle :
        /\ u # v
        /\ get_player_stats(Store, u).in_battle
        /\ get_player_stats(Store, u).has_sword
        /\ get_player_stats(Store, u).sword_class = 1
        /\ \E m \in DOMAIN battle : u \in DOMAIN battle[m].players
        /\ ~melt_blade(Store, u, 1).ok
        /\ battle[n].battle_status = Pending
        /\ v \in DOMAIN battle[n].players
        /\ ~join_battle(Store, n, u).ok
        /\ get_player_stats(Store, v).in_battle
        /\ ~get_player_stats(Store, v).has_sword
        /\ ~forge_blade(Store, v, 1, TRUE).ok

C20_AddPlayerBaseline ==
    \A user \in Users :
        LET r == add_player(Store, user)
        IN  /\ r.ok
            /\ r.s.player[user] =
                   [player_address |-> user, sword_class |-> 0, health |-> 100,
                    attack |-> 10, defense |-> 10, in_battle |-> FALSE,
                    has_sword |-> FALSE]
            /\ r.s.players = Append(players, user)
            /\ \A a \in DOMAIN player \ {user} : r.s.player[a] = player[a]
            /\ r.s.battle = battle

\* A user registered twice: the second registration reset the record of a
\* player who had forged a blade and was seated in a battle.
C20_Witness ==
    \E user \in Users :
        /\ Cardinality({i \in DOMAIN players : players[i] = user}) = 2
        /\ player[user].health = 100
        /\ ~player[user].in_battle
        /\ ~player[user].has_sword
        /\ user \in DOMAIN balance
        /\ \E n \in DOMAIN battle : user \in DOMAIN battle[n].players

(***************************************************************************)
(* C21.  Every call of create_battle, join_battle, challenge_bot,          *)
(* forge_blade, melt_blade or attack_or_defend_choice that fails leaves    *)
(* the whole store exactly as it was before the call; in particular a      *)
(* create_battle rejected because the creator is in a battle does not      *)
(* overwrite the stored battle of that name, although the record is        *)
(* written before the check.                                               *)
(***************************************************************************)
C21_FailedCallChangesNothing ==
    /\ \A n \in Names, u \in Users :
           LET created == create_battle(Store, n, u)
               joined  == join_battle(Store, n, u)
           IN  /\ ~created.ok => created.s = Store
               /\ ~joined.ok => joined.s = Store
    /\ \A n \in Names, a \in Address :
           LET challenged == challenge_bot(Store, a, n)
           IN  ~challenged.ok => challenged.s = Store
    /\ \A u \in Users, c \in Classes :
           LET melted == melt_blade(Store, u, c)
           IN  /\ ~melted.ok => melted.s = Store
               /\ \A chk \in BOOLEAN :
                      LET forged == forge_blade(Store, u, c, chk)
                      IN  ~forged.ok => forged.s = Store
    /\ \A n \in Names, u \in Users, c \in Choices, chk \in BOOLEAN :
           LET moved == attack_or_defend_choice(Store, u, c, n, chk)
           IN  ~moved.ok => moved.s = Store

\* A creator in a battle is refused a second create_battle on the name of a
\* stored battle that the early write would have replaced; a forge in the
\* ledger's failing class and a move on a Pending battle are refused too.
C21_Witness ==
    \E n \in DOMAIN battle, u \in Users :
        /\ get_player_stats(Store, u).in_battle
        /\ battle[n].battle_status = Started
        /\ u \in DOMAIN battle[n].players
        /\ ~create_battle(Store, n, u).ok
        /\ \E v \in Users :
               /\ ~get_player_stats(Store, v).in_battle
               /\ ~get_player_stats(Store, v).has_sword
               /\ ~forge_blade(Store, v, 3, TRUE).ok
        /\ \E m \in DOMAIN battle :
               /\ battle[m].battle_status = Pending
               /\ ~attack_or_defend_choice(Store, u, 1, m, TRUE).ok

(***************************************************************************)
(* C22.  For every registered player, after any sequence of forge_blade    *)
(* and melt_blade calls, health, attack and defense are non-negative (no   *)
(* u32 has wrapped below zero): no completed forge_blade subtracts 3 from  *)
(* a health (class 2) or a defense (class 3) smaller than 3.               *)
(***************************************************************************)
C22_StatsNonNegative ==
    \A i \in DOMAIN players :
        LET to == players[i]
            p == get_player_stats(Store, to)
        IN  /\ p.health >= 0 /\ p.attack >= 0 /\ p.defense >= 0
            /\ \A c \in Classes, chk \in BOOLEAN :
                   LET d == ForgeDelta(c)
                   IN  forge_blade(Store, to, c, chk).ok
                       => (/\ d.hsub => ~SubOverflows(p.health, d.health)
                           /\ d.dsub => ~SubOverflows(p.defense, d.defense))

\* A registered player holds the class-2 blade, whose forging subtracted 3
\* from the health.
C22_Witness ==
    \E i \in DOMAIN players :
        LET p == get_player_stats(Store, players[i])
        IN  /\ p.has_sword
            /\ p.sword_class = 2
            /\ p.health = 97
            /\ p.attack = 26

(***************************************************************************)
(* C23.  In the earlier draft, a completed increase_health(user, n) of a   *)
(* registered player stores and returns the previous health plus n, and a  *)
(* completed decrease_health(user, n) stores and returns the previous      *)
(* health minus n (as numbers: nothing wraps); attack, defense, in_battle  *)
(* and every other player's record stay as they were.                      *)
(***************************************************************************)
C23_DraftHealthUpdates ==
    [][\A i \in DOMAIN players, n \in Amounts, chk \in BOOLEAN :
          LET user == players[i]
              p == draft_get_player_stats(Store, user)
              inc == draft_increase_health(Store, user, n, chk)
              dec == draft_decrease_health(Store, user, n, chk)
          IN  /\ Took(inc)
                 => (/\ ~AddOverflows(p.health, n)
                     /\ inc.ret = p.health + n
                     /\ player' = MapSet(player, user, [p EXCEPT !.health = p.health + n]))
              /\ Took(dec)
                 => (/\ ~SubOverflows(p.health, n)
                     /\ dec.ret = p.health - n
                     /\ player' = MapSet(player, user, [p EXCEPT !.health = p.health - n]))]_vars

(***************************************************************************)
(* C24.  A PlayerStat written with set_player_stats for an address is what *)
(* the next get_player_stats for that address returns, and the write does  *)
(* not change the record read for any other address.                       *)
(***************************************************************************)
C24_PlayerStatRoundTrip ==
    \A user \in Users :
        \A player_stat \in [player_address : Address, sword_class : {0, 2},
                            health : {0, 97}, attack : {26}, defense : {12},
                            in_battle : BOOLEAN, has_sword : BOOLEAN] :
            LET s1 == set_player_stats(Store, user, player_stat)
            IN  /\ get_player_stats(s1, user) = player_stat
                /\ \A other \in Address \ {user} :
                       get_player_stats(s1, other) = get_player_stats(Store, other)

\* One address has a stored record and the other has none: a write for
\* either replaces a record, or creates one beside the other's.
C24_Witness ==
    \E user, other \in Users :
        /\ user \in DOMAIN player
        /\ player[user].has_sword
        /\ other \notin DOMAIN player
        /\ get_player_stats(set_player_stats(Store, other, player[user]), other) = player[user]
        /\ get_player_stats(set_player_stats(Store, other, player[user]), user) = player[user]

(***************************************************************************)
(* C25.  Resolution of Attack versus Attack, with seat 1 = A and seat 2 =  *)
(* B: if A.attack >= B.health the battle ends with winner A; otherwise if  *)
(* B.attack >= A.health it ends with winner B; otherwise A.health goes     *)
(* down by exactly B.attack and B.health by exactly A.attack, and attack   *)
(* and defense of both stay as they were.                                  *)
(***************************************************************************)
C25_AttackVersusAttack ==
    [][\A n \in Names, u \in Users, chk \in BOOLEAN :
          LET b == get_battle(Store, n)
              A == CHOOSE a \in DOMAIN b.players : b.players[a] = 1
              B == CHOOSE a \in DOMAIN b.players : b.players[a] = 2
              pA == get_player_stats(Store, A)
              pB == get_player_stats(Store, B)
              r == await_battle_results(Store, n, u, chk)
              b1 == get_battle(r.s, n)
          IN  (/\ TwoUsersSeated(b)
               /\ b.battle_status = Started
               /\ b.moves[A] = 1 /\ b.moves[B] = 1
               /\ Took(r))
              => IF Ge32(pA.attack, pB.health)
                 THEN b1.battle_status = Ended /\ b1.winner = A
                 ELSE IF Ge32(pB.attack, pA.health)
                 THEN b1.battle_status = Ended /\ b1.winner = B
                 ELSE /\ get_player_stats(r.s, A) = [pA EXCEPT !.health = pA.health - pB.attack]
                      /\ get_player_stats(r.s, B) = [pB EXCEPT !.health = pB.health - pA.attack]
                      /\ b1.battle_status = Started]_vars

(***************************************************************************)
(* C26.  Resolution of Attack (A) versus Defend (B), in either seat        *)
(* arrangement: if A.attack >= B.health + B.defense then A wins;           *)
(* otherwise B's new health is B.health + B.defense - A.attack when        *)
(* B.defense <= A.attack and is unchanged when B.defense > A.attack; the   *)
(* attacker's record and the defender's attack and defense are unchanged.  *)
(***************************************************************************)
C26_AttackVersusDefend ==
    [][\A n \in Names, u \in Users, chk \in BOOLEAN :
          LET b == get_battle(Store, n)
              r == await_battle_results(Store, n, u, chk)
              b1 == get_battle(r.s, n)
          IN  \A A \in DOMAIN b.players, B \in DOMAIN b.players :
                  LET pA == get_player_stats(Store, A)
                      pB == get_player_stats(Store, B)
                  IN  (/\ TwoUsersSeated(b)
                       /\ b.battle_status = Started
                       /\ A # B
                       /\ b.moves[A] = 1 /\ b.moves[B] = 2
                       /\ Took(r))
                      => IF Ge32(pA.attack, pB.health + pB.defense)
                         THEN b1.battle_status = Ended /\ b1.winner = A
                         ELSE /\ get_player_stats(r.s, A) = pA
                              /\ get_player_stats(r.s, B) =
                                     [pB EXCEPT !.health =
                                         IF Gt32(pB.defense, pA.attack) THEN pB.health
                                         ELSE pB.health + pB.defense - pA.attack]
                              /\ b1.battle_status = Started]_vars

(***************************************************************************)
(* C27.  After every resolution that does not end the battle, whichever of *)
(* the four move combinations it resolved, the stored battle is still      *)
(* Started and the move slots of both seats are 0, so that each seated     *)
(* participant can submit exactly one move in the next round: a first      *)
(* Attack or Defend is accepted and recorded, a second one is refused.     *)
(***************************************************************************)
C27_NonTerminalResolutionOpensNextRound ==
    \A n \in Names :
        BothSeatsMoved(get_battle(Store, n)) /\ ResolutionWinner(Store, n) = {}
        => \A u \in Users, chk \in BOOLEAN :
               LET r == await_battle_results(Store, n, u, chk)
                   b1 == get_battle(r.s, n)
               IN  r.ok =>
                   /\ b1.battle_status = Started
                   /\ DOMAIN b1.moves = DOMAIN b1.players
                   /\ SlotsEmpty(b1)
                   /\ \A a \in DOMAIN b1.players, c \in {1, 2} :
                          LET r2 == attack_or_defend_choice(r.s, a, c, n, chk)
                          IN  /\ r2.ok
                              /\ get_battle(r2.s, n).moves[a] = c
                              /\ \A c2 \in Choices :
                                     ~attack_or_defend_choice(r2.s, a, c2, n, chk).ok

\* A round of Attack against Attack between two registered players has been
\* resolved without a winner: both are down to health 90, the battle is
\* Started and its slots are empty again.
C27_Witness ==
    \E n \in Names :
        LET b == get_battle(Store, n)
        IN  /\ rounds = 1
            /\ TwoUsersSeated(b)
            /\ b.battle_status = Started
            /\ SlotsEmpty(b)
            /\ \A a \in DOMAIN b.players :
                   a \in DOMAIN player /\ player[a].health = 90

(***************************************************************************)
(* C28.  In every reachable state each stored battle has exactly two       *)
(* seats (one address in seat 1, another in seat 2), its moves map has an  *)
(* entry for exactly the two seated addresses (the key set of moves is the *)
(* key set of players), and each entry is 0, 1 or 2.                       *)
(***************************************************************************)
C28_TwoSeatsAndTheirSlots ==
    \A n \in DOMAIN battle :
        LET b == battle[n]
        IN  /\ Cardinality(DOMAIN b.players) = 2
            /\ Cardinality(Seat(b, 1)) = 1
            /\ Cardinality(Seat(b, 2)) = 1
            /\ DOMAIN b.moves = DOMAIN b.players
            /\ \A a \in DOMAIN b.moves : b.moves[a] \in {0, 1, 2}

(***************************************************************************)
(* C29.  Ended is terminal.  end_battle is the only code that stores the   *)
(* status Ended, and it runs inside a resolution that takes a terminal     *)
(* branch.  Once it has stored the battle as Ended, no join_battle,        *)
(* challenge_bot or attack_or_defend_choice call succeeds on that battle,  *)
(* and the status, participants and winner of the battle never change      *)
(* afterwards: the record the resolution leaves behind, and every later    *)
(* call on it, still shows them.                                           *)
(***************************************************************************)
C29_EndedIsTerminal ==
    \A n \in Names :
        BothSeatsMoved(get_battle(Store, n)) /\ ResolutionWinner(Store, n) # {}
        => LET w == CHOOSE a \in ResolutionWinner(Store, n) : TRUE
               ended == end_battle(Store, n, w).s
               e == get_battle(ended, n)
           IN  /\ e.battle_status = Ended
               /\ \A a \in Address, c \in Choices, chk \in BOOLEAN :
                      /\ ~join_battle(ended, n, a).ok
                      /\ ~challenge_bot(ended, a, n).ok
                      /\ ~attack_or_defend_choice(ended, a, c, n, chk).ok
               /\ \A u \in Users, chk \in BOOLEAN :
                      LET r == await_battle_results(Store, n, u, chk)
                          b1 == get_battle(r.s, n)
                      IN  r.ok =>
                          /\ b1.battle_status = e.battle_status
                          /\ b1.players = e.players
                          /\ b1.winner = e.winner
                          /\ \A a \in Address, c \in Choices :
                                 /\ ~join_battle(r.s, n, a).ok
                                 /\ ~challenge_bot(r.s, a, n).ok
                                 /\ ~attack_or_defend_choice(r.s, a, c, n, chk).ok

(***************************************************************************)
(* C30.  challenge_bot(user, name) succeeds only on a battle whose status  *)
(* is Pending and then stores it with status Started, seat 1 = user and    *)
(* seat 2 = the automated opponent (the contract address); on a battle     *)
(* that is Started or Ended it fails and changes nothing.                  *)
(***************************************************************************)
C30_ChallengeBot ==
    \A n \in Names, user \in Address :
        LET b == get_battle(Store, n)
            r == challenge_bot(Store, user, n)
            b1 == get_battle(r.s, n)
        IN  /\ r.ok => b.battle_status = Pending
            /\ r.ok => /\ b1.battle_status = Started
                       /\ Seat(b1, 1) = {user}
                       /\ Seat(b1, 2) = {ContractId}
            /\ b.battle_status \in {Started, Ended} => ~r.ok /\ r.s = Store

\* The two user addresses exchanged; the contract address stays.
Swapped(a) == IF a \in Users THEN CHOOSE o \in Users : o # a ELSE a

\* A map keyed by addresses, with the two users exchanged.
SwappedKeys(m) == [a \in {Swapped(k) : k \in DOMAIN m} |-> m[Swapped(a)]]

\* The store in which the two users have exchanged everything: records,
\* seats and moves.  The same battles, with the other address sorting first.
SwappedStore(s) ==
    [s EXCEPT
        !.player = [a \in DOMAIN SwappedKeys(s.player) |->
                       [SwappedKeys(s.player)[a] EXCEPT
                           !.player_address = Swapped(@)]],
        !.battle = [n \in DOMAIN s.battle |->
                       [s.battle[n] EXCEPT !.players = SwappedKeys(@),
                                           !.moves = SwappedKeys(@),
                                           !.winner = Swapped(@)]],
        !.players = [i \in DOMAIN s.players |-> Swapped(s.players[i])]]

(***************************************************************************)
(* C31.  The resolution outcome is symmetric in the two seats: exchanging  *)
(* the two participants (so that the other address sorts first in the      *)
(* players map) gives the mirrored result: the branch is won by the same   *)
(* participant by identity, and every record written, the records written  *)
(* when the battle ends included, is the mirror of the one written before. *)
(***************************************************************************)
C31_ResolutionSymmetric ==
    \A n \in Names :
        BothSeatsMoved(get_battle(Store, n))
        => \A u \in Users, chk \in BOOLEAN :
               LET r == await_battle_results(Store, n, u, chk)
                   m == await_battle_results(SwappedStore(Store), n, Swapped(u), chk)
               IN  /\ m.ok = r.ok
                   /\ ResolutionWinner(SwappedStore(Store), n)
                          = {Swapped(w) : w \in ResolutionWinner(Store, n)}
                   /\ m.s = SwappedStore(r.s)

\* add_player was called for the address at some time: add_player appends
\* it to the player list and nothing removes an entry.
Registered(user) == \E i \in DOMAIN players : players[i] = user

(***************************************************************************)
(* C32.  get_player_stats for an address that was never registered         *)
(* returns a value with health 0, attack 0, defense 0, in_battle false,    *)
(* has_sword false and sword_class 0.                                      *)
(***************************************************************************)
C32_UnregisteredReadsZero ==
    \A user \in Address :
        ~Registered(user)
        => LET p == get_player_stats(Store, user)
           IN  /\ p.health = 0 /\ p.attack = 0 /\ p.defense = 0
               /\ ~p.in_battle /\ ~p.has_sword /\ p.sword_class = 0

(***************************************************************************)
(* C33.  A Started battle never gets stuck: in every reachable state a     *)
(* battle with status Started has at least one seated participant whose    *)
(* move slot is 0, so there is never a Started battle in which both slots  *)
(* are non-zero and every further submission is rejected.                  *)
(***************************************************************************)
C33_StartedNeverStuck ==
    \A n \in DOMAIN battle :
        battle[n].battle_status = Started
        => \E a \in DOMAIN battle[n].players : MapGetOr(battle[n].moves, a, 0) = 0

\* An opened battle whose participants keep playing through the public
\* entry points: they may register, and a move that a participant can
\* submit is submitted eventually.  attack_or_defend_choice is the only
\* caller of the resolution.
NextDuel ==
    \/ AddPlayer
    \/ AttackOrDefendChoice

SpecDuel == InitRound /\ [][NextDuel]_vars /\ WF_vars(AttackOrDefendChoice)

\* Battle n is Started between the two users, both registered and with the
\* baseline attributes.
Duel(n) ==
    /\ n \in DOMAIN battle
    /\ battle[n].battle_status = Started
    /\ TwoUsersSeated(battle[n])
    /\ \A a \in Users :
           /\ Registered(a)
           /\ a \in DOMAIN player
           /\ player[a].health = 100 /\ player[a].attack = 10 /\ player[a].defense = 10

(***************************************************************************)
(* C34.  A battle between two registered baseline players who keep         *)
(* submitting their moves eventually reaches the status Ended.             *)
(***************************************************************************)
C34_DuelEventuallyEnded ==
    \A n \in Names :
        Duel(n) ~> (n \in DOMAIN battle /\ battle[n].battle_status = Ended)

(***************************************************************************)
(* C35.  In every reachable state, every address other than the contract's *)
(* that holds a seat in a battle with status Pending or Started has        *)
(* in_battle = true; consequently no player is seated in two active        *)
(* battles at once, and no seated player can forge or melt a sword.        *)
(***************************************************************************)
C35_SeatedMeansInBattle ==
    \A n \in DOMAIN battle :
        Active(battle[n])
        => \A a \in DOMAIN battle[n].players \ {ContractId} :
               get_player_stats(Store, a).in_battle

(***************************************************************************)
(* C36.  A battle record can have status Started only if a create_battle   *)
(* or create_auto_battle call for that name succeeded earlier: join_battle *)
(* and challenge_bot on a name that was never created, for which           *)
(* get_battle returns the default Pending value, do not store a battle or  *)
(* change any player.                                                      *)
(***************************************************************************)
C36_NoBattleWithoutCreate ==
    [][\A n \in Names, u \in Address :
          (/\ n \notin DOMAIN battle
           /\ (Took(join_battle(Store, n, u)) \/ Took(challenge_bot(Store, u, n))))
          => /\ battle' = battle
             /\ player' = player]_vars

\* Address a holds a seat of the battle stored under name n in map bs.
HoldsSeat(bs, n, a) == n \in DOMAIN bs /\ a \in DOMAIN bs[n].players

\* The step is a call that address a authorized: one of the entry points
\* that seat their `user` argument after user.require_auth() (lib.rs 279,
\* 314, 344), called with user = a.  challenge_bot has no require_auth: a
\* step it takes is authorized by nobody in particular.
AuthorizedSeatingBy(a) ==
    \E n \in Names :
        \/ Took(create_battle(Store, n, a))
        \/ Took(create_auto_battle(Store, n, a))
        \/ Took(join_battle(Store, n, a))

(***************************************************************************)
(* C37.  An address is placed in a battle seat, or removed from one, only  *)
(* by a call that the address itself authorized: no call of another        *)
(* caller seats it, and the creator of a Pending battle is not removed     *)
(* from its seat by a call of another address, challenge_bot included.     *)
(***************************************************************************)
C37_SeatingOnlyByOwnCall ==
    [][\A n \in Names, a \in Users :
          HoldsSeat(battle', n, a) # HoldsSeat(battle, n, a)
          => AuthorizedSeatingBy(a)]_vars

(***************************************************************************)
(* C38.  No unsigned subtraction underflows in any reachable state, for    *)
(* any caller: whenever forge_blade gets past its asserts, the `-=` its    *)
(* class applies to health (class 2) or to defense (class 3) acts on a     *)
(* value at least as large as the amount subtracted, also when the caller  *)
(* never registered and its attributes read as 0.                          *)
(***************************************************************************)
C38_NoUnderflow ==
    \A to \in Users, class \in Classes :
        LET p == get_player_stats(Store, to)
            d == ForgeDelta(class)
        IN  (~p.has_sword /\ ~p.in_battle /\ NotClassGt2(class))
            => /\ d.hsub => ~SubOverflows(p.health, d.health)
               /\ d.dsub => ~SubOverflows(p.defense, d.defense)

(***************************************************************************)
(* C39.  If both participants have health >= 1 before a round, then after  *)
(* any resolution that does not end the battle both participants still     *)
(* have health >= 1: a player's health reaches a non-positive value only   *)
(* in a branch that ends the battle.                                       *)
(***************************************************************************)
C39_HealthStaysPositive ==
    \A n \in Names :
        LET b == get_battle(Store, n)
        IN  (/\ BothSeatsMoved(b)
             /\ ResolutionWinner(Store, n) = {}
             /\ \A a \in DOMAIN b.players : Ge32(get_player_stats(Store, a).health, 1))
            => \A u \in Users, chk \in BOOLEAN :
                   LET r == await_battle_results(Store, n, u, chk)
                   IN  r.ok => \A a \in DOMAIN b.players :
                                   Ge32(get_player_stats(r.s, a).health, 1)

\* Rounds between two registered participants have been resolved without
\* ending the battle and have worn one of them down to a positive health
\* that the other's next Attack will be lethal to.
C39_Witness ==
    \E n \in Names :
        LET b == get_battle(Store, n)
        IN  /\ rounds > 0
            /\ TwoUsersSeated(b)
            /\ b.battle_status = Started
            /\ SlotsEmpty(b)
            /\ \A a \in DOMAIN b.players :
                   a \in DOMAIN player /\ player[a].attack = 10 /\ player[a].health >= 1
            /\ \E a \in DOMAIN b.players : player[a].health <= 10

(***************************************************************************)
(* C40.  In every reachable state a battle's winner field is the contract  *)
(* address while the status is Pending or Started and is one of the        *)
(* battle's seated participants when the status is Ended, and the name of  *)
(* every stored battle record appears in the battle index.                 *)
(***************************************************************************)
C40_WinnerFieldAndIndex ==
    \A n \in DOMAIN battle :
        /\ Active(battle[n]) => battle[n].winner = ContractId
        /\ battle[n].battle_status = Ended => battle[n].winner \in DOMAIN battle[n].players
        /\ \E i \in DOMAIN battles : battles[i] = n

====
